---------------------------- MODULE Spec2Model ----------------------------
(***************************************************************************)
(* Model of the spooling-guide geometry engine                             *)
(* (src/src/spooling_guide/geometry.py over the module-level constants of  *)
(* src/src/spooling_guide/specifications.py).                              *)
(*                                                                         *)
(* Numbers.  The program computes in IEEE doubles; the model computes in   *)
(* fixed point:                                                            *)
(*   lengths  : integers, 1 = 0.01 mm            (mm(250) = 25000)         *)
(*   degrees  : integers, 1 = 0.001 degree       (deg(90) = 90000)         *)
(*   radians  : integers, 1 = 1e-6 rad           (PiRad   = 3141593)       *)
(*   cos, sin : integers, 1 = 1e-6                                         *)
(* cos, sin, atan2 and the Euclidean norm are computed by CORDIC           *)
(* iterations, every product is split so that no intermediate value        *)
(* leaves the 32-bit range of TLC's integers.  A computed coordinate is    *)
(* within Tol length units of the double the program computes.             *)
(***************************************************************************)
EXTENDS Integers, Sequences, FiniteSets, TLC

-----------------------------------------------------------------------------
(* Fixed-point arithmetic                                                  *)

mm(x) == x * 100
halfmm(x) == x * 50
deg(x) == x * 1000

PiRad == 3141593
TwoPiRad == 6283185
HalfPiRad == 1570796

\* Comparison tolerance for computed lengths (0.05 mm).
Tol == mm(1) \div 20

Abs(x) == IF x < 0 THEN -x ELSE x
Sgn(x) == IF x < 0 THEN -1 ELSE IF x > 0 THEN 1 ELSE 0

\* x / d rounded to the nearest integer, symmetric about zero (d > 0).
RoundDiv(x, d) == Sgn(x) * ((2 * Abs(x) + d) \div (2 * d))

\* a * c / 10^6 for a length a (|a| < 2 * 10^6) and a cos/sin value c.
MulT(a, c) ==
    LET A  == Abs(a)
        C  == Abs(c)
        ch == C \div 1000
        cl == C % 1000
        p  == A * ch + ((A * cl + 500) \div 1000)
    IN  Sgn(a) * Sgn(c) * ((p + 500) \div 1000)

\* atan(2^-i) in microradians, i = 0 .. 20.
AtanTab == << 785398, 463648, 244979, 124355, 62419, 31240, 15624, 7812,
              3906, 1953, 977, 488, 244, 122, 61, 31, 15, 8, 4, 2, 1 >>

Pow2(i) == 2^i

\* CORDIC rotation: (x, y) turned by z, |z| <= pi/2, gain left in.
RECURSIVE CordicRot(_, _, _, _)
CordicRot(i, x, y, z) ==
    IF i > Len(AtanTab) THEN << x, y >>
    ELSE LET d == IF z >= 0 THEN 1 ELSE -1
             p == Pow2(i - 1)
         IN  CordicRot(i + 1, x - d * (y \div p), y + d * (x \div p),
                       z - d * AtanTab[i])

\* <<cos z, sin z>> scaled by 10^6 for 0 <= z <= pi/2 (microradians).
CosSinQ1(z) ==
    LET r == CordicRot(1, 607252935, 0, z)
    IN  << RoundDiv(r[1], 1000), RoundDiv(r[2], 1000) >>

\* z reduced to (-pi, pi].
RECURSIVE WrapPi(_)
WrapPi(z) ==
    IF z > PiRad THEN WrapPi(z - TwoPiRad)
    ELSE IF z <= -PiRad THEN WrapPi(z + TwoPiRad)
    ELSE z

\* math.cos and math.sin of an angle in microradians, scaled by 10^6.
CosSin(z) ==
    LET w  == WrapPi(z)
        a  == Abs(w)
        q  == IF a > HalfPiRad THEN PiRad - a ELSE a
        cs == CosSinQ1(q)
        c  == IF a > HalfPiRad THEN -cs[1] ELSE cs[1]
        s  == IF w < 0 THEN -cs[2] ELSE cs[2]
    IN  << c, s >>

\* CORDIC vectoring: (x, y) with x > 0 turned onto the x axis;
\* returns <<x * gain, angle turned through>>.
RECURSIVE CordicVec(_, _, _, _)
CordicVec(i, x, y, z) ==
    IF i > Len(AtanTab) THEN << x, z >>
    ELSE LET d == IF y >= 0 THEN 1 ELSE -1
             p == Pow2(i - 1)
         IN  CordicVec(i + 1, x + d * (y \div p), y - d * (x \div p),
                       z + d * AtanTab[i])

\* <<norm, angle>> of the vector (x, y) with x > 0, y > 0 (lengths below
\* 4 * 10^5 units, which covers every distance of the drawing).
PolarQ1(x, y) ==
    LET r == CordicVec(1, x * 1000, y * 1000, 0)
    IN  << MulT(RoundDiv(r[1], 1000), 607253), r[2] >>

\* math.atan2(y, x) in microradians, in (-pi, pi].
Atan2(y, x) ==
    IF x = 0 /\ y = 0 THEN 0
    ELSE IF y = 0 THEN (IF x > 0 THEN 0 ELSE PiRad)
    ELSE IF x = 0 THEN Sgn(y) * HalfPiRad
    ELSE LET a == IF Abs(x) = Abs(y) THEN HalfPiRad \div 2
                  ELSE PolarQ1(Abs(x), Abs(y))[2]
         IN  Sgn(y) * (IF x > 0 THEN a ELSE PiRad - a)

\* Euclidean norm of (x, y) (numpy.linalg.norm of a 2-vector).
Norm(x, y) ==
    IF x = 0 THEN Abs(y)
    ELSE IF y = 0 THEN Abs(x)
    ELSE PolarQ1(Abs(x), Abs(y))[1]

\* math.radians: millidegrees to microradians (pi/180 = 17750/1017 * 1e-3).
Radians(d) ==
    LET D == Abs(d)
    IN  Sgn(d) * ((D \div 1017) * 17750 + RoundDiv((D % 1017) * 17750, 1017))

\* math.degrees: microradians to millidegrees.
Degrees(z) ==
    LET Z == Abs(z)
    IN  Sgn(z) * ((Z \div 17750) * 1017 + RoundDiv((Z % 17750) * 1017, 17750))

\* <<q, r>> with a * b = q * c + r and 0 <= r < c, for a, b >= 0, c > 0,
\* by doubling, so that no intermediate product is formed.
RECURSIVE MulDivQR(_, _, _)
MulDivQR(a, b, c) ==
    IF b = 0 THEN << 0, 0 >>
    ELSE LET h  == MulDivQR(a, b \div 2, c)
             r2 == 2 * h[2] + (IF b % 2 = 1 THEN a % c ELSE 0)
             q2 == 2 * h[1] + (IF b % 2 = 1 THEN a \div c ELSE 0)
         IN  << q2 + (r2 \div c), r2 % c >>

\* a * b / c rounded to the nearest integer (c > 0).
MulDiv(a, b, c) ==
    LET qr == MulDivQR(Abs(a), Abs(b), c)
    IN  Sgn(a) * Sgn(b) * (qr[1] + (IF 2 * qr[2] >= c THEN 1 ELSE 0))

\* x / 2.0 (exact in doubles; the lengths of the model are even).
Half(x) == RoundDiv(x, 2)

\* The point at distance r from centre c in direction z.
Polar(c, r, z) ==
    LET cs == CosSin(z)
    IN  << c[1] + MulT(r, cs[1]), c[2] + MulT(r, cs[2]) >>

Origin == << 0, 0 >>

\* numpy.linalg.norm(p - q)
Dist(p, q) == Norm(p[1] - q[1], p[2] - q[2])

\* A Python call either returns a value or raises.
Return(v) == [raised |-> "", value |-> v]
Raise(e) == [raised |-> e, value |-> << >>]

-----------------------------------------------------------------------------
(* specifications.py: the module-level constants                           *)

\* The dimensional constants as shipped (specifications.py lines 15-61).
Shipped ==
    [ OUTER_RING_DIAMETER    |-> mm(10),
      CENTRAL_OPENING_RADIUS |-> mm(250),
      ARM_COUNT              |-> 4,
      ARM_ANGULAR_SPACING    |-> deg(90),
      ARM_WIDTH_INNER        |-> mm(50),
      ARM_WIDTH_OUTER        |-> mm(100),
      ARM_INNER_RADIUS       |-> mm(250),
      ARM_OUTER_RADIUS       |-> mm(505),
      ARM_END_ARC_RADIUS     |-> halfmm(1065),
      CENTRAL_HOLE_X         |-> 0,
      CENTRAL_HOLE_Y         |-> 0,
      INNER_HOLE_COUNT       |-> 8,
      INNER_HOLE_DIAMETER    |-> mm(8),
      INNER_HOLE_PCD         |-> mm(90),
      OUTER_HOLE_COUNT       |-> 4,
      OUTER_HOLE_DIAMETER    |-> mm(8),
      OUTER_HOLE_PCD         |-> mm(1020),
      CORNER_FILLET_RADIUS   |-> mm(5),
      CORNER_FILLET_COUNT    |-> 16 ]

\* ARM_ANGLES = [0.0, 90.0, 180.0, 270.0]
ARM_ANGLES == << deg(0), deg(90), deg(180), deg(270) >>

\* The constants the module computes when it is imported (lines 72-77):
\* they are set once, from the literal constants c above them.
LoadSpecification(c) ==
    LET spacing == RoundDiv(deg(360), c.INNER_HOLE_COUNT)
    IN  c @@
        [ ARM_ANGLES |-> ARM_ANGLES,
          OUTER_HOLE_ANGLES |-> ARM_ANGLES,
          INNER_HOLE_ANGULAR_SPACING |-> spacing,
          INNER_HOLE_ANGLES |->
              [ i \in 1 .. c.INNER_HOLE_COUNT |-> (i - 1) * spacing ] ]

-----------------------------------------------------------------------------
(* geometry.py                                                             *)

\* math.sqrt of n >= 0, rounded to the nearest integer.
RECURSIVE FloorSqrt(_, _, _)
FloorSqrt(n, lo, hi) ==
    IF lo >= hi THEN lo
    ELSE LET mid == (lo + hi + 1) \div 2
         IN  IF mid * mid <= n THEN FloorSqrt(n, mid, hi)
             ELSE FloorSqrt(n, lo, mid - 1)

Sqrt(n) ==
    LET k == FloorSqrt(n, 0, 46340)
    IN  IF n - k * k > k THEN k + 1 ELSE k

Dot(u, v) == u[1] * v[1] + u[2] * v[2]
Sub(u, v) == << u[1] - v[1], u[2] - v[2] >>

\* The quadratic a t^2 + b t + c = 0 of the line point + t * direction
\* against |P - circle_center|^2 = circle_radius^2.
QuadA(direction) == Dot(direction, direction)
QuadB(point, direction, circle_center) ==
    2 * Dot(direction, Sub(point, circle_center))
QuadC(point, circle_center, circle_radius) ==
    Dot(Sub(point, circle_center), Sub(point, circle_center))
        - circle_radius * circle_radius
Discriminant(point, direction, circle_center, circle_radius) ==
    LET b == QuadB(point, direction, circle_center)
    IN  b * b - 4 * QuadA(direction)
                  * QuadC(point, circle_center, circle_radius)

\* point + t * direction, t given as the fraction num / den (den > 0).
PointAt(point, direction, num, den) ==
    << point[1] + RoundDiv(num * direction[1], den),
       point[2] + RoundDiv(num * direction[2], den) >>

\* A slip: the tangent line is treated as a miss (disc <= 0).
line_circle_intersection_no_tangent(point, direction, circle_center, circle_radius) ==
    LET a == QuadA(direction)
        b == QuadB(point, direction, circle_center)
        disc == Discriminant(point, direction, circle_center, circle_radius)
        root == Sqrt(disc)
    IN  IF a = 0 \/ disc <= 0 THEN << >>
        ELSE << PointAt(point, direction, -b - root, 2 * a),
                PointAt(point, direction, -b + root, 2 * a) >>

\* A slip: a zero-length direction is taken as the line's single point.
line_circle_intersection_zero_direction_point(point, direction, circle_center, circle_radius) ==
    LET a == QuadA(direction)
        b == QuadB(point, direction, circle_center)
        disc == Discriminant(point, direction, circle_center, circle_radius)
        root == Sqrt(disc)
    IN  IF a = 0 THEN << point >>
        ELSE IF disc < 0 THEN << >>
        ELSE IF disc = 0 THEN << PointAt(point, direction, -b, 2 * a) >>
        ELSE << PointAt(point, direction, -b - root, 2 * a),
                PointAt(point, direction, -b + root, 2 * a) >>

\* A slip: the roots are divided by a, not by 2a.
line_circle_intersection_half_denominator(point, direction, circle_center, circle_radius) ==
    LET a == QuadA(direction)
        b == QuadB(point, direction, circle_center)
        disc == Discriminant(point, direction, circle_center, circle_radius)
        root == Sqrt(disc)
    IN  IF a = 0 THEN << >>
        ELSE IF disc < 0 THEN << >>
        ELSE IF disc = 0 THEN << PointAt(point, direction, -b, a) >>
        ELSE << PointAt(point, direction, -b - root, a),
                PointAt(point, direction, -b + root, a) >>

\* line_circle_intersection(point, direction, circle_center, circle_radius):
\* the list of 0, 1 or 2 points, by the discriminant; a zero-length
\* direction is "no intersection".
line_circle_intersection(point, direction, circle_center, circle_radius) ==
    LET a == QuadA(direction)
        b == QuadB(point, direction, circle_center)
        disc == Discriminant(point, direction, circle_center, circle_radius)
        root == Sqrt(disc)
    IN  IF a = 0 THEN << >>
        ELSE IF disc < 0 THEN << >>
        ELSE IF disc = 0 THEN << PointAt(point, direction, -b, 2 * a) >>
        ELSE << PointAt(point, direction, -b - root, 2 * a),
                PointAt(point, direction, -b + root, 2 * a) >>

\* A slip: the taper is not clamped beyond the outer radius.
arm_width_at_radius_unclamped(s, r) ==
    LET inner_radius == s.ARM_INNER_RADIUS
        outer_radius == s.ARM_OUTER_RADIUS
        width_inner  == s.ARM_WIDTH_INNER
        width_outer  == s.ARM_WIDTH_OUTER
    IN  IF r <= inner_radius \/ outer_radius <= inner_radius THEN width_inner
        ELSE width_inner + MulDiv(width_outer - width_inner, r - inner_radius,
                                  outer_radius - inner_radius)

\* A slip: the arm keeps its inner width up to the outer radius.
arm_width_at_radius_stepped(s, r) ==
    IF r < s.ARM_OUTER_RADIUS THEN s.ARM_WIDTH_INNER ELSE s.ARM_WIDTH_OUTER

\* arm_width_at_radius(r): the clamped linear taper between the arm's
\* radial boundaries.
arm_width_at_radius(s, r) ==
    LET inner_radius == s.ARM_INNER_RADIUS
        outer_radius == s.ARM_OUTER_RADIUS
        width_inner  == s.ARM_WIDTH_INNER
        width_outer  == s.ARM_WIDTH_OUTER
    IN  IF r <= inner_radius THEN width_inner
        ELSE IF r >= outer_radius THEN width_outer
        ELSE width_inner + MulDiv(width_outer - width_inner, r - inner_radius,
                                  outer_radius - inner_radius)

\* widths = [geom.arm_width_at_radius(r) for r in test_radii]
arm_widths_at_radii(s, test_radii) ==
    [ i \in 1 .. Len(test_radii) |-> arm_width_at_radius(s, test_radii[i]) ]

\* numpy.linspace(a, b, n)[i], i = 1 .. n
Linspace(a, b, n, i) ==
    IF i = n /\ n > 1 THEN b
    ELSE IF n = 1 THEN a
    ELSE a + RoundDiv((i - 1) * (b - a), n - 1)

ConcaveArcNumPoints == 30
FilletArcNumPoints == 10

\* A slip: the 100 mm adjustment of the center distance is left out.
calculate_concave_arc_geometry_unadjusted(s, arm_angle_rad, half_width_outer) ==
    LET arc_radius == s.ARM_END_ARC_RADIUS
        arc_center_distance == Half(s.OUTER_HOLE_PCD) + arc_radius
        arc_center == Polar(Origin, arc_center_distance, arm_angle_rad)
        angular_extent == 2 * Atan2(half_width_outer, arc_radius)
        start_angle == arm_angle_rad - Half(angular_extent)
        end_angle == arm_angle_rad + Half(angular_extent)
    IN  << arc_center, start_angle, end_angle >>

calculate_concave_arc_geometry(s, arm_angle_rad, half_width_outer) ==
    LET arc_radius == s.ARM_END_ARC_RADIUS
        arc_center_distance ==
            Half(s.OUTER_HOLE_PCD) + arc_radius - mm(100)
        arc_center == Polar(Origin, arc_center_distance, arm_angle_rad)
        angular_extent == 2 * Atan2(half_width_outer, arc_radius)
        start_angle == arm_angle_rad - Half(angular_extent)
        end_angle == arm_angle_rad + Half(angular_extent)
    IN  << arc_center, start_angle, end_angle >>

\* A slip: the sign of the width offset is lost, so the right-hand corner is
\* put on the left.
find_line_arc_intersection_unsigned_offset(s, start_point, arm_angle_rad, width_offset_inner, width_offset_outer, arc_center) ==
    LET inner_radius == s.CENTRAL_OPENING_RADIUS
        outer_radius_estimate == Half(s.OUTER_HOLE_PCD)
        intersection_radius == MulDiv(outer_radius_estimate, 85, 100)
        intersection_angle ==
            arm_angle_rad + Atan2(Abs(width_offset_outer), intersection_radius)
    IN  IF outer_radius_estimate = inner_radius
        THEN Raise("ZeroDivisionError")
        ELSE Return(Polar(Origin, intersection_radius, intersection_angle))

find_line_arc_intersection(s, start_point, arm_angle_rad, width_offset_inner, width_offset_outer, arc_center) ==
    LET inner_radius == s.CENTRAL_OPENING_RADIUS
        outer_radius_estimate == Half(s.OUTER_HOLE_PCD)
        intersection_radius == MulDiv(outer_radius_estimate, 85, 100)
        intersection_angle ==
            arm_angle_rad + Atan2(width_offset_outer, intersection_radius)
    IN  \* width_change_rate divides by (outer_radius_estimate - inner_radius)
        IF outer_radius_estimate = inner_radius
        THEN Raise("ZeroDivisionError")
        ELSE Return(Polar(Origin, intersection_radius, intersection_angle))

\* A slip: the concave arc is sampled at a sixth of the points asked for.
generate_concave_arc_between_points_sparse(s, arc_center, start_point, end_point, num_points) ==
    LET start_angle == Atan2(start_point[2] - arc_center[2],
                             start_point[1] - arc_center[1])
        end_angle0  == Atan2(end_point[2] - arc_center[2],
                             end_point[1] - arc_center[1])
        end_angle   == IF end_angle0 < start_angle
                       THEN end_angle0 + TwoPiRad ELSE end_angle0
    IN  [ i \in 1 .. (num_points \div 6) |->
            Polar(arc_center, s.ARM_END_ARC_RADIUS,
                  Linspace(start_angle, end_angle, num_points \div 6, i)) ]

generate_concave_arc_between_points(s, arc_center, start_point, end_point, num_points) ==
    LET start_angle == Atan2(start_point[2] - arc_center[2],
                             start_point[1] - arc_center[1])
        end_angle0  == Atan2(end_point[2] - arc_center[2],
                             end_point[1] - arc_center[1])
        end_angle   == IF end_angle0 < start_angle
                       THEN end_angle0 + TwoPiRad ELSE end_angle0
    IN  [ i \in 1 .. num_points |->
            Polar(arc_center, s.ARM_END_ARC_RADIUS,
                  Linspace(start_angle, end_angle, num_points, i)) ]

\* A slip: the 45-degree turn to the corner's side is left out, so the center
\* is put straight along (or against) the arm direction.
calculate_fillet_center_at_junction_no_side(vertex, arm_angle_rad, fillet_radius, position_type) ==
    LET offset_angle == IF position_type \in {"inner_left", "inner_right"}
                        THEN arm_angle_rad + PiRad
                        ELSE arm_angle_rad
    IN  Polar(vertex, fillet_radius, offset_angle)

calculate_fillet_center_at_junction(vertex, arm_angle_rad, fillet_radius, position_type) ==
    LET base == IF position_type \in {"inner_left", "inner_right"}
                THEN arm_angle_rad + PiRad
                ELSE arm_angle_rad
        offset_angle == IF position_type \in {"inner_left", "outer_left"}
                        THEN base + (PiRad \div 4)
                        ELSE base - (PiRad \div 4)
    IN  Polar(vertex, fillet_radius, offset_angle)

generate_fillet_arc_points(center, radius, num_points) ==
    [ i \in 1 .. num_points |->
        Polar(center, radius, Linspace(0, HalfPiRad, num_points, i)) ]

\* A slip: only the two outer corners are filleted.
calculate_precise_fillet_data_outer_only(s, inner_left, inner_right, outer_left, outer_right, arm_angle_rad) ==
    LET fillet_radius == s.CORNER_FILLET_RADIUS
        centers ==
          << calculate_fillet_center_at_junction(outer_left, arm_angle_rad,
                                                 fillet_radius, "outer_left"),
             calculate_fillet_center_at_junction(outer_right, arm_angle_rad,
                                                 fillet_radius, "outer_right") >>
    IN  [ centers |-> centers,
          arcs |-> [ k \in 1 .. Len(centers) |->
                       generate_fillet_arc_points(centers[k], fillet_radius,
                                                  FilletArcNumPoints) ],
          radius |-> fillet_radius ]

calculate_precise_fillet_data(s, inner_left, inner_right, outer_left, outer_right, arm_angle_rad) ==
    LET fillet_radius == s.CORNER_FILLET_RADIUS
        centers ==
          << calculate_fillet_center_at_junction(inner_left, arm_angle_rad,
                                                 fillet_radius, "inner_left"),
             calculate_fillet_center_at_junction(inner_right, arm_angle_rad,
                                                 fillet_radius, "inner_right"),
             calculate_fillet_center_at_junction(outer_left, arm_angle_rad,
                                                 fillet_radius, "outer_left"),
             calculate_fillet_center_at_junction(outer_right, arm_angle_rad,
                                                 fillet_radius, "outer_right") >>
    IN  [ centers |-> centers,
          arcs |-> [ k \in 1 .. Len(centers) |->
                       generate_fillet_arc_points(centers[k], fillet_radius,
                                                  FilletArcNumPoints) ],
          radius |-> fillet_radius ]

\* A slip: the closing point is left out.
assemble_arm_outline_unclosed(inner_left, inner_right, outer_left, outer_right, concave_arc_points, fillet_data) ==
    << inner_left, outer_left >> \o concave_arc_points
        \o << outer_right, inner_right >>

assemble_arm_outline_with_fillets(inner_left, inner_right, outer_left, outer_right, concave_arc_points, fillet_data) ==
    << inner_left, outer_left >> \o concave_arc_points
        \o << outer_right, inner_right, inner_left >>

\* calculate_arm_vertices(arm_angle_deg).  The statements run in order, each
\* local variable computed once: the points of steps 1 and 2 (points), then
\* the two intersections of step 3 from them (intersections), then steps 4
\* to 6 from all of those (result).  An error of find_line_arc_intersection
\* ends the call.
calculate_arm_vertices(s, arm_angle_deg) ==
    LET angle_rad == Radians(arm_angle_deg)
        half_width_inner == Half(s.ARM_WIDTH_INNER)
        half_width_outer == Half(s.ARM_WIDTH_OUTER)
        inner_radius == s.CENTRAL_OPENING_RADIUS
        inner_left_angle == angle_rad + Atan2(half_width_inner, inner_radius)
        inner_right_angle == angle_rad - Atan2(half_width_inner, inner_radius)
        points ==
            [ inner_left |-> Polar(Origin, inner_radius, inner_left_angle),
              inner_right |-> Polar(Origin, inner_radius, inner_right_angle),
              arc_center |->
                  calculate_concave_arc_geometry(s, angle_rad,
                      half_width_outer)[1] ]
        intersections(p) ==
            [ left |-> find_line_arc_intersection(s, p.inner_left, angle_rad,
                           half_width_inner, half_width_outer, p.arc_center),
              right |-> find_line_arc_intersection(s, p.inner_right, angle_rad,
                           -half_width_inner, -half_width_outer, p.arc_center) ]
        result(p, x) ==
            LET concave_arc_points ==
                    generate_concave_arc_between_points(s, p.arc_center,
                        x.left.value, x.right.value, ConcaveArcNumPoints)
                fillet_data ==
                    calculate_precise_fillet_data(s, p.inner_left,
                        p.inner_right, x.left.value, x.right.value, angle_rad)
                arm_outline_points ==
                    assemble_arm_outline_with_fillets(p.inner_left,
                        p.inner_right, x.left.value, x.right.value,
                        concave_arc_points, fillet_data)
            IN  IF x.left.raised # "" THEN x.left
                ELSE IF x.right.raised # "" THEN x.right
                ELSE Return([ outline |-> arm_outline_points,
                              concave_arc |-> concave_arc_points,
                              fillet_data |-> fillet_data ])
    IN  CHOOSE ret \in
          { result(px[1], px[2]) :
              px \in { << p, intersections(p) >> : p \in { points } } } : TRUE

\* drawing_components.draw_corner_fillets: for each arm of ARM_ANGLES the
\* fillet data of calculate_arm_vertices is handed to draw_arm_fillets, which
\* plots its arcs.  The value is the list of fillet data drawn, arm by arm;
\* an error of calculate_arm_vertices passes through.
RECURSIVE draw_corner_fillets_from(_, _, _)
draw_corner_fillets_from(s, i, drawn) ==
    IF i > Len(s.ARM_ANGLES) THEN Return(drawn)
    ELSE CHOOSE ret \in
           { IF arm.raised # "" THEN arm
             ELSE draw_corner_fillets_from(s, i + 1,
                      Append(drawn, arm.value.fillet_data)) :
             arm \in { calculate_arm_vertices(s, s.ARM_ANGLES[i]) } } : TRUE

draw_corner_fillets(s) == draw_corner_fillets_from(s, 1, << >>)

\* A slip: the inner holes are put at the pitch circle's diameter.
calculate_hole_coordinates_diameter(s) ==
    [ central |-> << << s.CENTRAL_HOLE_X, s.CENTRAL_HOLE_Y >> >>,
      inner |-> [ i \in 1 .. Len(s.INNER_HOLE_ANGLES) |->
                    Polar(Origin, s.INNER_HOLE_PCD,
                          Radians(s.INNER_HOLE_ANGLES[i])) ],
      outer |-> [ i \in 1 .. Len(s.OUTER_HOLE_ANGLES) |->
                    Polar(Origin, Half(s.OUTER_HOLE_PCD),
                          Radians(s.OUTER_HOLE_ANGLES[i])) ] ]

\* A slip: the outer holes are put at the inner holes' angles.
calculate_hole_coordinates_outer_on_inner_angles(s) ==
    [ central |-> << << s.CENTRAL_HOLE_X, s.CENTRAL_HOLE_Y >> >>,
      inner |-> [ i \in 1 .. Len(s.INNER_HOLE_ANGLES) |->
                    Polar(Origin, Half(s.INNER_HOLE_PCD),
                          Radians(s.INNER_HOLE_ANGLES[i])) ],
      outer |-> [ i \in 1 .. Len(s.INNER_HOLE_ANGLES) |->
                    Polar(Origin, Half(s.OUTER_HOLE_PCD),
                          Radians(s.INNER_HOLE_ANGLES[i])) ] ]

calculate_hole_coordinates(s) ==
    [ central |-> << << s.CENTRAL_HOLE_X, s.CENTRAL_HOLE_Y >> >>,
      inner |-> [ i \in 1 .. Len(s.INNER_HOLE_ANGLES) |->
                    Polar(Origin, Half(s.INNER_HOLE_PCD),
                          Radians(s.INNER_HOLE_ANGLES[i])) ],
      outer |-> [ i \in 1 .. Len(s.OUTER_HOLE_ANGLES) |->
                    Polar(Origin, Half(s.OUTER_HOLE_PCD),
                          Radians(s.OUTER_HOLE_ANGLES[i])) ] ]

\* A slip: the ring's diameter is added where its radius is meant.
calculate_overall_dimensions_ring_diameter(s) ==
    LET outer_ring_center_radius == Half(s.OUTER_HOLE_PCD)
        overall_radius == outer_ring_center_radius + s.OUTER_RING_DIAMETER
    IN  [ overall_diameter |-> 2 * overall_radius,
          overall_radius |-> overall_radius,
          outer_ring_center_radius |-> outer_ring_center_radius,
          central_opening_diameter |-> 2 * s.CENTRAL_OPENING_RADIUS ]

calculate_overall_dimensions(s) ==
    LET outer_ring_center_radius == Half(s.OUTER_HOLE_PCD)
        ring_radius == Half(s.OUTER_RING_DIAMETER)
        overall_radius == outer_ring_center_radius + ring_radius
        overall_diameter == 2 * overall_radius
    IN  [ overall_diameter |-> overall_diameter,
          overall_radius |-> overall_radius,
          outer_ring_center_radius |-> outer_ring_center_radius,
          central_opening_diameter |-> 2 * s.CENTRAL_OPENING_RADIUS ]

\* The two checks of validate_geometry.
ArmsMayOverlap(s) ==
    Degrees(2 * Atan2(Half(s.ARM_WIDTH_OUTER), Half(s.OUTER_HOLE_PCD)))
        > s.ARM_ANGULAR_SPACING

\* A slip: the spacing is compared with one hole diameter, not two.
InnerHolesMayOverlap_one_diameter(s) ==
    RoundDiv(MulT(s.INNER_HOLE_PCD, PiRad), s.INNER_HOLE_COUNT)
        < s.INNER_HOLE_DIAMETER

InnerHolesMayOverlap(s) ==
    RoundDiv(MulT(s.INNER_HOLE_PCD, PiRad), s.INNER_HOLE_COUNT)
        < 2 * s.INNER_HOLE_DIAMETER

\* A slip: the arm-overlap message is appended to errors.
validate_geometry_overlap_as_error(s) ==
    LET errors == IF ArmsMayOverlap(s) THEN << "Arms may overlap" >> ELSE << >>
        warnings == IF InnerHolesMayOverlap(s)
                    THEN << "Inner holes may overlap" >> ELSE << >>
    IN  IF s.INNER_HOLE_COUNT = 0 THEN Raise("ZeroDivisionError")
        ELSE Return([ warnings |-> warnings,
                      errors |-> errors,
                      geometry_valid |-> Len(errors) = 0 ])

\* A slip: overlapping inner holes are raised, not reported.
validate_geometry_raising(s) ==
    IF s.INNER_HOLE_COUNT = 0 THEN Raise("ZeroDivisionError")
    ELSE IF InnerHolesMayOverlap(s) THEN Raise("ValueError")
    ELSE Return([ warnings |-> IF ArmsMayOverlap(s)
                               THEN << "Arms may overlap" >> ELSE << >>,
                  errors |-> << >>,
                  geometry_valid |-> TRUE ])

\* A slip: a warning also makes the geometry invalid.
validate_geometry_warnings_invalidate(s) ==
    LET w1 == IF ArmsMayOverlap(s) THEN << "Arms may overlap" >> ELSE << >>
        w2 == IF InnerHolesMayOverlap(s)
              THEN << "Inner holes may overlap" >> ELSE << >>
        warnings == w1 \o w2
        errors == << >>
    IN  IF s.INNER_HOLE_COUNT = 0 THEN Raise("ZeroDivisionError")
        ELSE Return([ warnings |-> warnings,
                      errors |-> errors,
                      geometry_valid |-> Len(errors) + Len(warnings) = 0 ])

validate_geometry(s) ==
    LET w1 == IF ArmsMayOverlap(s) THEN << "Arms may overlap" >> ELSE << >>
        w2 == IF InnerHolesMayOverlap(s)
              THEN << "Inner holes may overlap" >> ELSE << >>
        warnings == w1 \o w2
        errors == << >>
    IN  \* inner_hole_spacing divides by INNER_HOLE_COUNT
        IF s.INNER_HOLE_COUNT = 0 THEN Raise("ZeroDivisionError")
        ELSE Return([ warnings |-> warnings,
                      errors |-> errors,
                      geometry_valid |-> Len(errors) = 0 ])

-----------------------------------------------------------------------------
(* drawing_components.py, main_drawer.py                                   *)

\* drawing_components.draw_all_arms: each arm of ARM_ANGLES is drawn by
\* draw_single_arm from what calculate_arm_vertices returns for it.  The
\* value is the list of outlines plotted, arm by arm; an error of
\* calculate_arm_vertices passes through.
RECURSIVE draw_all_arms_from(_, _, _)
draw_all_arms_from(s, i, drawn) ==
    IF i > Len(s.ARM_ANGLES) THEN Return(drawn)
    ELSE CHOOSE ret \in
           { IF arm.raised # "" THEN arm
             ELSE draw_all_arms_from(s, i + 1,
                      Append(drawn, arm.value.outline)) :
             arm \in { calculate_arm_vertices(s, s.ARM_ANGLES[i]) } } : TRUE

draw_all_arms(s) == draw_all_arms_from(s, 1, << >>)

\* What generate_spooling_guide_drawing leaves behind: the calls it made on
\* the figure, in order, and the pair it returned (nothing when it raised).
Outcome(raised, events, result) ==
    [raised |-> raised, value |-> [events |-> events, result |-> result]]

NoFigure == << "None", "None" >>
Figure == << "fig", "ax" >>

\* The calls of a run that compute geometry, each with what it returns or
\* raises; the others only plot.
GeometryCalls(s) ==
    [ validation |-> validate_geometry(s),
      arms |-> draw_all_arms(s),
      fillets |-> draw_corner_fillets(s) ]

ComponentsUntilArms ==
    << "validate_geometry", "setup_figure_and_axes", "draw_central_opening",
       "draw_all_arms" >>
ComponentsUntilFillets ==
    ComponentsUntilArms
    \o << "draw_all_holes", "draw_outer_ring", "draw_all_pcds",
          "draw_centerlines", "draw_corner_fillets" >>

\* A slip: the files are saved as soon as the components are drawn, before
\* the annotations are added.
generate_spooling_guide_drawing_save_early(s, save_files) ==
    LET outcome(c) ==
          IF c.validation.raised # ""
          THEN Outcome(c.validation.raised, << "validate_geometry" >>, << >>)
          ELSE IF ~ c.validation.value.geometry_valid
          THEN Outcome("", << "validate_geometry" >>, NoFigure)
          ELSE IF c.arms.raised # ""
          THEN Outcome(c.arms.raised, ComponentsUntilArms, << >>)
          ELSE IF c.fillets.raised # ""
          THEN Outcome(c.fillets.raised, ComponentsUntilFillets, << >>)
          ELSE Outcome("",
                   ComponentsUntilFillets
                   \o (IF save_files THEN << "save_drawing_files" >>
                       ELSE << >>)
                   \o << "add_all_annotations", "tight_layout" >>,
                   Figure)
    IN  CHOOSE ret \in { outcome(c) : c \in { GeometryCalls(s) } } : TRUE

\* main_drawer.generate_spooling_guide_drawing.  Of the calls it makes only
\* validate_geometry and calculate_arm_vertices (under draw_all_arms and
\* draw_corner_fillets) can fail; an error ends the run where it is raised.
generate_spooling_guide_drawing(s, save_files) ==
    LET outcome(c) ==
          IF c.validation.raised # ""
          THEN Outcome(c.validation.raised, << "validate_geometry" >>, << >>)
          ELSE IF ~ c.validation.value.geometry_valid
          THEN Outcome("", << "validate_geometry" >>, NoFigure)
          ELSE IF c.arms.raised # ""
          THEN Outcome(c.arms.raised, ComponentsUntilArms, << >>)
          ELSE IF c.fillets.raised # ""
          THEN Outcome(c.fillets.raised, ComponentsUntilFillets, << >>)
          ELSE Outcome("",
                   ComponentsUntilFillets
                   \o << "add_all_annotations", "tight_layout" >>
                   \o (IF save_files THEN << "save_drawing_files" >>
                       ELSE << >>),
                   Figure)
    IN  CHOOSE ret \in { outcome(c) : c \in { GeometryCalls(s) } } : TRUE

-----------------------------------------------------------------------------
(* drawing_utils.py                                                        *)

DoubleDArcNumPoints == 25

\* The closed Double-D profile: the right arc, the right flat, the left arc
\* reversed, the left flat.  arcsin(flat_half_width / radius) is the angle
\* atan2(flat_half_width, curve_height).
double_d_profile(center_x, center_y, radius, flat_half_width) ==
    LET center == << center_x, center_y >>
        curve_height == Sqrt(radius * radius - flat_half_width * flat_half_width)
        half_angle == Atan2(flat_half_width, curve_height)
        right == [ i \in 1 .. DoubleDArcNumPoints |->
                     Polar(center, radius,
                           Linspace(- half_angle, half_angle,
                                    DoubleDArcNumPoints, i)) ]
        left_reversed ==
                 [ i \in 1 .. DoubleDArcNumPoints |->
                     Polar(center, radius,
                           Linspace(PiRad - half_angle, PiRad + half_angle,
                                    DoubleDArcNumPoints,
                                    DoubleDArcNumPoints + 1 - i)) ]
        flat_top_y == center_y + curve_height
        flat_bottom_y == center_y - curve_height
    IN  right
        \o << << center_x + flat_half_width, flat_top_y >>,
              << center_x + flat_half_width, flat_bottom_y >> >>
        \o left_reversed
        \o << << center_x - flat_half_width, flat_bottom_y >>,
              << center_x - flat_half_width, flat_top_y >> >>

\* A slip: the flat width itself, not its half, is compared with the radius
\* (as the comment on the fallback branch words it).
draw_double_d_hole_full_width(center_x, center_y, overall_diameter, flat_width, fill) ==
    LET radius == Half(overall_diameter)
        flat_half_width == Half(flat_width)
        profile == double_d_profile(center_x, center_y, radius, flat_half_width)
    IN  IF flat_width < radius
        THEN Return((IF fill THEN << [artist |-> "fill", xy |-> profile] >>
                     ELSE << >>)
                    \o << [artist |-> "plot", xy |-> profile] >>)
        ELSE Return(<< [artist |-> "Circle",
                        center |-> << center_x, center_y >>,
                        radius |-> radius, fill |-> fill] >>)

\* DrawingUtils.draw_double_d_hole: the value is the list of artists the call
\* adds to the axes (colour and line weight are left out).
draw_double_d_hole(center_x, center_y, overall_diameter, flat_width, fill) ==
    LET radius == Half(overall_diameter)
        flat_half_width == Half(flat_width)
        profile == double_d_profile(center_x, center_y, radius, flat_half_width)
    IN  IF flat_half_width < radius
        THEN Return((IF fill THEN << [artist |-> "fill", xy |-> profile] >>
                     ELSE << >>)
                    \o << [artist |-> "plot", xy |-> profile] >>)
        ELSE Return(<< [artist |-> "Circle",
                        center |-> << center_x, center_y >>,
                        radius |-> radius, fill |-> fill] >>)

-----------------------------------------------------------------------------
(* The program: the loaded specification module and the calls made on it   *)

VARIABLES
    spec,   \* the attributes of the imported specifications module
    call    \* the geometry call that last returned, with what it returned

vars == << spec, call >>

NoCall == [fn |-> "none", arg |-> << >>, ret |-> Return(<< >>)]

\* Largest INNER_HOLE_COUNT a loaded specification is drawn with.
MaxInnerHoleCount == 8

RingDiameters == { mm(10), mm(20) }
ArmOuterRadii == { mm(500), mm(505), mm(510) }
OuterHolePcds == { mm(1020), mm(1000) }
ArmWidthsOuter == { mm(100), mm(1015), mm(1100) }
InnerHoleDiameters == { mm(8), mm(20) }
OuterHoleCounts == { 0, 4 }

\* The specification modules the program is run with: the shipped constants
\* with some of them edited in the file, either the ring and arm dimensions
\* or the hole patterns.  A module with INNER_HOLE_COUNT = 0 does not import
\* (line 76 divides by it).
RingSpecifications ==
    { LoadSpecification(
        [ Shipped EXCEPT !.OUTER_RING_DIAMETER = rd,
                         !.ARM_OUTER_RADIUS = aor,
                         !.OUTER_HOLE_PCD = pcd,
                         !.ARM_WIDTH_OUTER = wo,
                         !.INNER_HOLE_DIAMETER = hd ]) :
        rd \in RingDiameters, aor \in ArmOuterRadii, pcd \in OuterHolePcds,
        wo \in ArmWidthsOuter, hd \in InnerHoleDiameters }

HoleSpecifications ==
    { LoadSpecification(
        [ Shipped EXCEPT !.INNER_HOLE_COUNT = n,
                         !.INNER_HOLE_DIAMETER = hd,
                         !.OUTER_HOLE_COUNT = oc ]) :
        n \in 1 .. MaxInnerHoleCount, hd \in InnerHoleDiameters,
        oc \in OuterHoleCounts }

\* Radii no drawing can have, one wrong constant at a time: a zero or
\* negative radius, or a central opening that reaches (510 mm) or passes
\* (600 mm) the outer pitch circle.  Such a module imports like any other.
InvalidCentralOpeningRadii == { 0, -mm(250), mm(510), mm(600) }
InvalidEndArcRadii == { 0, -halfmm(1065) }
InvalidOuterHolePcds == { 0, -mm(1020) }

InvalidSpecifications ==
    { LoadSpecification([ Shipped EXCEPT !.CENTRAL_OPENING_RADIUS = r ]) :
        r \in InvalidCentralOpeningRadii }
    \cup { LoadSpecification([ Shipped EXCEPT !.ARM_END_ARC_RADIUS = r ]) :
        r \in InvalidEndArcRadii }
    \cup { LoadSpecification([ Shipped EXCEPT !.OUTER_HOLE_PCD = d ]) :
        d \in InvalidOuterHolePcds }

Specifications ==
    RingSpecifications \cup HoleSpecifications \cup InvalidSpecifications

\* The arm angles calculate_arm_vertices is called with: the four arms and
\* one angle between them.
ArmAngleInputs == { ARM_ANGLES[i] : i \in 1 .. Len(ARM_ANGLES) } \cup { deg(45) }

\* The radii arm_width_at_radius is called with.
RadiusInputs ==
    { mm(200), mm(250), mm(300), halfmm(755), mm(380), mm(450), mm(500),
      mm(505), mm(510), mm(600) }

\* The sequences of radii the taper is sampled at: the analysis script's
\* (which runs on to OUTER_HOLE_PCD/2 = 510 mm), the same ending at the arm's
\* outer radius, an even division of [250, 505], and its two ends and middle.
TaperSamples ==
    { << mm(250), mm(300), mm(350), mm(400), mm(450), mm(500), mm(510) >>,
      << mm(250), mm(300), mm(350), mm(400), mm(450), mm(500), mm(505) >>,
      << mm(250), mm(301), mm(352), mm(403), mm(454), mm(505) >>,
      << mm(250), halfmm(755), mm(505) >> }

Init ==
    /\ spec \in Specifications
    /\ call = NoCall

CallArmVertices(arm_angle_deg) ==
    /\ call.fn = NoCall.fn
    /\ call' = [fn |-> "calculate_arm_vertices", arg |-> << arm_angle_deg >>,
                ret |-> calculate_arm_vertices(spec, arm_angle_deg)]
    /\ UNCHANGED spec

CallHoleCoordinates ==
    /\ call.fn = NoCall.fn
    /\ call' = [fn |-> "calculate_hole_coordinates", arg |-> << >>,
                ret |-> Return(calculate_hole_coordinates(spec))]
    /\ UNCHANGED spec

CallOverallDimensions ==
    /\ call.fn = NoCall.fn
    /\ call' = [fn |-> "calculate_overall_dimensions", arg |-> << >>,
                ret |-> Return(calculate_overall_dimensions(spec))]
    /\ UNCHANGED spec

CallValidateGeometry ==
    /\ call.fn = NoCall.fn
    /\ call' = [fn |-> "validate_geometry", arg |-> << >>,
                ret |-> validate_geometry(spec)]
    /\ UNCHANGED spec

CallArmWidthAtRadius(r) ==
    /\ call.fn = NoCall.fn
    /\ call' = [fn |-> "arm_width_at_radius", arg |-> << r >>,
                ret |-> Return(arm_width_at_radius(spec, r))]
    /\ UNCHANGED spec

CallArmWidthsAtRadii(test_radii) ==
    /\ call.fn = NoCall.fn
    /\ call' = [fn |-> "arm_widths_at_radii", arg |-> << test_radii >>,
                ret |-> Return(arm_widths_at_radii(spec, test_radii))]
    /\ UNCHANGED spec

CallDrawCornerFillets ==
    /\ call.fn = NoCall.fn
    /\ call' = [fn |-> "draw_corner_fillets", arg |-> << >>,
                ret |-> draw_corner_fillets(spec)]
    /\ UNCHANGED spec

\* calculate_arm_vertices' call (line 52), with the arm's angle in radians
\* and half of ARM_WIDTH_OUTER.
CallConcaveArcGeometry(arm_angle_deg) ==
    /\ call.fn = NoCall.fn
    /\ call' = [fn |-> "calculate_concave_arc_geometry",
                arg |-> << Radians(arm_angle_deg), Half(spec.ARM_WIDTH_OUTER) >>,
                ret |-> Return(calculate_concave_arc_geometry(spec,
                                   Radians(arm_angle_deg),
                                   Half(spec.ARM_WIDTH_OUTER)))]
    /\ UNCHANGED spec

\* The caller is done with the returned value.
Discard ==
    /\ call.fn # NoCall.fn
    /\ call' = NoCall
    /\ UNCHANGED spec

\* The lines and circles line_circle_intersection is called with: the line
\* starts left of or at the circle's centre, up to MaxLineOffset mm above it.
MaxLineOffset == 6

LinePoints == { << mm(x), mm(y) >> : x \in {-10, 0}, y \in 0 .. MaxLineOffset }
LineDirections ==
    { << 1, 0 >>, << 0, 1 >>, << 1, 1 >>, << -1, 0 >>, << 2, 1 >>, << 0, 0 >> }
CircleCenters == { << 0, 0 >> }
CircleRadii == { mm(5), mm(3) }

CallLineCircleIntersection(point, direction, circle_center, circle_radius) ==
    /\ call.fn = NoCall.fn
    /\ call' = [fn |-> "line_circle_intersection",
                arg |-> << point, direction, circle_center, circle_radius >>,
                ret |-> Return(line_circle_intersection(point, direction,
                                   circle_center, circle_radius))]
    /\ UNCHANGED spec

\* The holes draw_double_d_hole is called with: diameters up to
\* MaxHoleDiameter mm, flat widths from nothing to beyond the diameter.
MaxHoleDiameter == 10

HoleCenters == { << 0, 0 >>, << mm(10), -mm(5) >> }
HoleDiameters == { mm(d) : d \in 0 .. MaxHoleDiameter }
FlatWidths == { mm(f) : f \in 0 .. MaxHoleDiameter + 2 }

CallDrawDoubleDHole(center, overall_diameter, flat_width, fill) ==
    /\ call.fn = NoCall.fn
    /\ call' = [fn |-> "draw_double_d_hole",
                arg |-> << center, overall_diameter, flat_width, fill >>,
                ret |-> draw_double_d_hole(center[1], center[2],
                                           overall_diameter, flat_width, fill)]
    /\ UNCHANGED spec

Next ==
    \/ \E a \in ArmAngleInputs : CallArmVertices(a)
    \/ CallHoleCoordinates
    \/ CallOverallDimensions
    \/ CallValidateGeometry
    \/ \E r \in RadiusInputs : CallArmWidthAtRadius(r)
    \/ \E t \in TaperSamples : CallArmWidthsAtRadii(t)
    \/ CallDrawCornerFillets
    \/ \E a \in ArmAngleInputs : CallConcaveArcGeometry(a)
    \/ Discard

Spec == Init /\ [][Next]_vars

\* The line-circle primitive on its own inputs, under the shipped constants.
InitLCI ==
    /\ spec = LoadSpecification(Shipped)
    /\ call = NoCall

NextLCI ==
    \/ \E p \in LinePoints, d \in LineDirections, c \in CircleCenters,
          r \in CircleRadii : CallLineCircleIntersection(p, d, c, r)
    \/ Discard

SpecLCI == InitLCI /\ [][NextLCI]_vars

\* The Double-D hole on its own inputs, under the shipped constants.
InitDoubleD ==
    /\ spec = LoadSpecification(Shipped)
    /\ call = NoCall

NextDoubleD ==
    \/ \E c \in HoleCenters, d \in HoleDiameters, f \in FlatWidths,
          fill \in BOOLEAN : CallDrawDoubleDHole(c, d, f, fill)
    \/ Discard

SpecDoubleD == InitDoubleD /\ [][NextDoubleD]_vars

\* A run of the drawing generator on a loaded module, saving or not.
CallGenerateSpoolingGuideDrawing(save_files) ==
    /\ call.fn = NoCall.fn
    /\ call' = [fn |-> "generate_spooling_guide_drawing",
                arg |-> << save_files >>,
                ret |-> generate_spooling_guide_drawing(spec, save_files)]
    /\ UNCHANGED spec

NextDrawing ==
    \/ \E save_files \in BOOLEAN : CallGenerateSpoolingGuideDrawing(save_files)
    \/ Discard

SpecDrawing == Init /\ [][NextDrawing]_vars

\* A caller rebinds a constant of the imported module (the module's
\* attributes are plain names).  Nothing else of the module is touched: the
\* lists computed at import (lines 72-77) stay as they were.
SetInnerHoleCount(n) ==
    /\ call.fn = NoCall.fn
    /\ spec' = [spec EXCEPT !.INNER_HOLE_COUNT = n]
    /\ UNCHANGED call

SetOuterHolePcd(d) ==
    /\ call.fn = NoCall.fn
    /\ spec' = [spec EXCEPT !.OUTER_HOLE_PCD = d]
    /\ UNCHANGED call

\* The geometry calls on a module whose constants are changed between them,
\* starting from the shipped constants.
InitEdit ==
    /\ spec = LoadSpecification(Shipped)
    /\ call = NoCall

NextEdit ==
    \/ \E n \in 1 .. MaxInnerHoleCount : SetInnerHoleCount(n)
    \/ \E d \in OuterHolePcds : SetOuterHolePcd(d)
    \/ \E a \in ArmAngleInputs : CallArmVertices(a)
    \/ CallHoleCoordinates
    \/ CallOverallDimensions
    \/ CallValidateGeometry
    \/ Discard

SpecEdit == InitEdit /\ [][NextEdit]_vars

-----------------------------------------------------------------------------
(* Properties                                                              *)

Returned(fn) == call.fn = fn /\ call.ret.raised = ""

\* Angular tolerance: 0.03 degree, the angle a rounded coordinate can move
\* a point of the inner hole circle through.
AngTol == Radians(30)

Near(x, y) == Abs(x - y) <= Tol

LineParam(q, point, direction) == Dot(Sub(q, point), direction)

\* C2: for a line (direction not zero), line_circle_intersection returns no
\* point when the discriminant of the quadratic in t is negative, exactly
\* one when it is zero, exactly two when it is positive, and then the point
\* with the smaller t first.
C2_CountByDiscriminant ==
    call.fn = "line_circle_intersection" =>
        LET point     == call.arg[1]
            direction == call.arg[2]
            disc      == Discriminant(call.arg[1], call.arg[2], call.arg[3],
                                      call.arg[4])
            pts       == call.ret.value
        IN  /\ call.ret.raised = ""
            /\ QuadA(direction) > 0 =>
                 /\ disc < 0 => Len(pts) = 0
                 /\ disc = 0 => Len(pts) = 1
                 /\ disc > 0 =>
                      /\ Len(pts) = 2
                      /\ LineParam(pts[1], point, direction)
                           < LineParam(pts[2], point, direction)

\* C2 witness: the tangent line y = 5 touches the circle of radius 5 once.
C2_Witness ==
    /\ Returned("line_circle_intersection")
    /\ call.arg = << << mm(-10), mm(5) >>, << 1, 0 >>, << 0, 0 >>, mm(5) >>
    /\ call.ret.value = << << 0, mm(5) >> >>

\* C3: calculate_hole_coordinates()['inner'] has INNER_HOLE_COUNT entries,
\* each at distance INNER_HOLE_PCD/2 from the origin, the first at angle 0,
\* consecutive ones 360/INNER_HOLE_COUNT degrees apart; ['central'] is the
\* single point (CENTRAL_HOLE_X, CENTRAL_HOLE_Y).
C3_InnerHolePattern ==
    call.fn = "calculate_hole_coordinates" =>
        LET inner  == call.ret.value.inner
            n      == spec.INNER_HOLE_COUNT
            radius == spec.INNER_HOLE_PCD \div 2
            ang(i) == Atan2(inner[i][2], inner[i][1])
        IN  /\ call.ret.raised = ""
            /\ Len(inner) = n
            /\ \A i \in 1 .. Len(inner) :
                 Near(Norm(inner[i][1], inner[i][2]), radius)
            /\ Len(inner) >= 1 =>
                 /\ Near(inner[1][1], radius)
                 /\ Near(inner[1][2], 0)
            /\ \A i \in 1 .. Len(inner) - 1 :
                 Abs(WrapPi(ang(i + 1) - ang(i) - Radians(deg(360) \div n)))
                     <= AngTol
            /\ call.ret.value.central
                 = << << spec.CENTRAL_HOLE_X, spec.CENTRAL_HOLE_Y >> >>

\* C3 witness: the shipped pattern of 8 holes, the third one at 90 degrees.
C3_Witness ==
    /\ Returned("calculate_hole_coordinates")
    /\ spec.INNER_HOLE_COUNT = 8
    /\ Len(call.ret.value.inner) = 8
    /\ call.ret.value.inner[3] = << 0, mm(45) >>

\* C4: calculate_overall_dimensions() returns outer_ring_center_radius =
\* OUTER_HOLE_PCD / 2, overall_radius = outer_ring_center_radius +
\* OUTER_RING_DIAMETER / 2, overall_diameter = 2 * overall_radius and
\* central_opening_diameter = 2 * CENTRAL_OPENING_RADIUS.
C4_OverallDimensions ==
    call.fn = "calculate_overall_dimensions" =>
        LET d == call.ret.value
        IN  /\ call.ret.raised = ""
            /\ 2 * d.outer_ring_center_radius = spec.OUTER_HOLE_PCD
            /\ 2 * (d.overall_radius - d.outer_ring_center_radius)
                 = spec.OUTER_RING_DIAMETER
            /\ d.overall_diameter = 2 * d.overall_radius
            /\ d.central_opening_diameter = 2 * spec.CENTRAL_OPENING_RADIUS

\* C4 witness: a 20 mm ring on the 1000 mm circle gives 1020 mm overall.
C4_Witness ==
    /\ Returned("calculate_overall_dimensions")
    /\ spec.OUTER_HOLE_PCD = mm(1000)
    /\ spec.OUTER_RING_DIAMETER = mm(20)
    /\ call.ret.value.overall_diameter = mm(1020)

\* ring_inner_radius - arm_outer_radius, doubled (to stay in integers).
Clearance2(s) == s.OUTER_HOLE_PCD - s.OUTER_RING_DIAMETER - 2 * s.ARM_OUTER_RADIUS

\* C5: whenever ring_inner_radius - arm_outer_radius is negative,
\* validate_geometry() returns a non-empty errors list and geometry_valid
\* false.
C5_InterferenceIsAnError ==
    (call.fn = "validate_geometry" /\ Clearance2(spec) < 0) =>
        /\ call.ret.raised = ""
        /\ Len(call.ret.value.errors) > 0
        /\ ~ call.ret.value.geometry_valid

\* C6: the outline returned by calculate_arm_vertices(angle) is closed: its
\* first point equals its last point.
C6_OutlineClosed ==
    Returned("calculate_arm_vertices") =>
        LET outline == call.ret.value.outline
        IN  /\ Len(outline) >= 2
            /\ outline[1] = outline[Len(outline)]

\* C6 witness: an outline has been returned for the arm at 90 degrees, and
\* it starts at the inner-left corner.
C6_Witness ==
    /\ Returned("calculate_arm_vertices")
    /\ call.arg = << deg(90) >>
    /\ spec.CENTRAL_OPENING_RADIUS = mm(250)
    /\ Near(Norm(call.ret.value.outline[1][1], call.ret.value.outline[1][2]),
            mm(250))
    /\ call.ret.value.outline[1][1] < 0

\* The four corners calculate_arm_vertices computes for an arm.
ArmCorners(s, arm_angle_deg) ==
    LET angle_rad == Radians(arm_angle_deg)
        hwi == Half(s.ARM_WIDTH_INNER)
        hwo == Half(s.ARM_WIDTH_OUTER)
        r   == s.CENTRAL_OPENING_RADIUS
        il  == Polar(Origin, r, angle_rad + Atan2(hwi, r))
        ir  == Polar(Origin, r, angle_rad - Atan2(hwi, r))
        c   == calculate_concave_arc_geometry(s, angle_rad, hwo)[1]
    IN  [ inner_left |-> il, inner_right |-> ir,
          outer_left |->
              find_line_arc_intersection(s, il, angle_rad, hwi, hwo, c).value,
          outer_right |->
              find_line_arc_intersection(s, ir, angle_rad, -hwi, -hwo, c).value ]

\* C7: the outline returned by calculate_arm_vertices(angle) is exactly the
\* 5-point sequence inner-left, outer-left, outer-right, inner-right,
\* inner-left.
C7_OutlineIsFivePointTrapezoid ==
    Returned("calculate_arm_vertices") =>
        LET k == ArmCorners(spec, call.arg[1])
        IN  call.ret.value.outline
              = << k.inner_left, k.outer_left, k.outer_right, k.inner_right,
                   k.inner_left >>

\* C9: when ring_inner_radius equals arm_outer_radius, validate_geometry()
\* returns no error, geometry_valid true, and no warning other than the two
\* overlap warnings (none about the ring clearance).
C9_TangentIsValid ==
    (call.fn = "validate_geometry" /\ Clearance2(spec) = 0) =>
        /\ call.ret.raised = ""
        /\ call.ret.value.errors = << >>
        /\ call.ret.value.geometry_valid
        /\ \A i \in 1 .. Len(call.ret.value.warnings) :
             call.ret.value.warnings[i]
                 \in { "Arms may overlap", "Inner holes may overlap" }

\* C9 witness: the shipped constants (1020/2 - 10/2 = 505) validated, with
\* no warning at all.
C9_Witness ==
    /\ Returned("validate_geometry")
    /\ spec.OUTER_HOLE_PCD = mm(1020)
    /\ spec.OUTER_RING_DIAMETER = mm(10)
    /\ spec.ARM_OUTER_RADIUS = mm(505)
    /\ call.ret.value.warnings = << >>
    /\ call.ret.value.geometry_valid

\* A manufacturability violation: arms overlap, inner holes overlap, or the
\* arm interferes with the ring.
Violation(s) ==
    \/ 2 * Degrees(Atan2(s.ARM_WIDTH_OUTER, s.OUTER_HOLE_PCD)) > s.ARM_ANGULAR_SPACING
    \/ MulT(s.INNER_HOLE_PCD, PiRad) < 2 * s.INNER_HOLE_DIAMETER * s.INNER_HOLE_COUNT
    \/ Clearance2(s) < 0

\* C10: a call of validate_geometry() on a specification with a
\* manufacturability violation returns a result with warnings, errors and
\* geometry_valid (it does not raise) and leaves every specification
\* constant unchanged.
C10_ValidateReportsAndKeepsSpec ==
    [][ (call.fn = "none" /\ call'.fn = "validate_geometry" /\ Violation(spec)) =>
          /\ call'.ret.raised = ""
          /\ DOMAIN call'.ret.value = { "warnings", "errors", "geometry_valid" }
          /\ spec' = spec ]_vars

\* C10 witness: validate_geometry() has returned for a specification whose
\* arms overlap and interfere with the ring and whose inner holes overlap.
C10_Witness ==
    /\ Returned("validate_geometry")
    /\ Clearance2(spec) < 0
    /\ spec.ARM_WIDTH_OUTER > spec.OUTER_HOLE_PCD
    /\ Len(call.ret.value.warnings) = 2

\* A specification with a zero or negative radius, or with its inner radius
\* not below its outer radius.
InvalidSpecification(s) ==
    \/ s.CENTRAL_OPENING_RADIUS <= 0
    \/ s.OUTER_HOLE_PCD <= 0
    \/ s.ARM_END_ARC_RADIUS <= 0
    \/ 2 * s.CENTRAL_OPENING_RADIUS >= s.OUTER_HOLE_PCD

\* C11: with an invalid specification (a zero or negative
\* CENTRAL_OPENING_RADIUS, OUTER_HOLE_PCD/2 or ARM_END_ARC_RADIUS, or an inner
\* radius >= the outer radius) calculate_arm_vertices fails with an error; it
\* never returns vertices.
C11_InvalidSpecificationRejected ==
    (call.fn = "calculate_arm_vertices" /\ InvalidSpecification(spec)) =>
        call.ret.raised # ""

TaperRate(w1, w2, r1, r2) == MulDiv(w2 - w1, 10000, r2 - r1)

\* max(rates) - min(rates) < 0.01 over the segments of a sampled sequence,
\* and no segment on which the width decreases.
TaperIsLinear(test_radii, widths) ==
    LET segs == 1 .. Len(test_radii) - 1
        rate(i) == TaperRate(widths[i], widths[i + 1],
                             test_radii[i], test_radii[i + 1])
    IN  /\ \A i \in segs : widths[i] <= widths[i + 1]
        /\ \A i, j \in segs : rate(i) - rate(j) < 100

AlongArm(p, z) == MulT(p[1], CosSin(z)[1]) + MulT(p[2], CosSin(z)[2])
AcrossArm(p, z) == MulT(p[2], CosSin(z)[1]) - MulT(p[1], CosSin(z)[2])

CanonicalArmAngles == { deg(0), deg(90), deg(180), deg(270) }

\* q is the mirror image of p across the centerline of the arm at angle z.
Mirrored(p, q, z) ==
    /\ Near(AlongArm(p, z), AlongArm(q, z))
    /\ Near(AcrossArm(p, z), -AcrossArm(q, z))

\* C14: for each arm angle in {0, 90, 180, 270} the corners returned by
\* calculate_arm_vertices (the first two and the last two points of the
\* outline before its closing point) are mirror images across the arm
\* centerline: inner-left and inner-right, and outer-left and outer-right,
\* have equal components along the arm and opposite components across it;
\* with valid radii the left ones lie on the left.
C14_CornersMirrored ==
    (Returned("calculate_arm_vertices") /\ call.arg[1] \in CanonicalArmAngles) =>
        LET outline == call.ret.value.outline
            n == Len(outline)
            z == Radians(call.arg[1])
        IN  /\ n >= 5
            /\ Mirrored(outline[1], outline[n - 1], z)
            /\ Mirrored(outline[2], outline[n - 2], z)
            /\ ~ InvalidSpecification(spec) =>
                 /\ AcrossArm(outline[1], z) > 0
                 /\ AcrossArm(outline[2], z) > 0

\* C14 witness: the shipped arm at 180 degrees; its left corners are below
\* the x axis and its right corners above it.
C14_Witness ==
    /\ Returned("calculate_arm_vertices")
    /\ call.arg = << deg(180) >>
    /\ spec = LoadSpecification(Shipped)
    /\ call.ret.value.outline[1][2] < 0
    /\ call.ret.value.outline[2][2] < 0
    /\ call.ret.value.outline[Len(call.ret.value.outline) - 1][2] > 0
    /\ call.ret.value.outline[Len(call.ret.value.outline) - 2][2] > 0

\* C15: calculate_hole_coordinates()['outer'] has one hole per arm, the i-th
\* on the centerline of the i-th arm of ARM_ANGLES at distance
\* OUTER_HOLE_PCD/2, and consecutive arm angles are 360/ARM_COUNT degrees
\* apart, cyclically.
C15_OuterHolesOnArms ==
    call.fn = "calculate_hole_coordinates" =>
        LET outer  == call.ret.value.outer
            angles == spec.ARM_ANGLES
            n      == Len(angles)
        IN  /\ call.ret.raised = ""
            /\ n = spec.ARM_COUNT
            /\ Len(outer) = n
            /\ \A i \in 1 .. n :
                 /\ Near(AcrossArm(outer[i], Radians(angles[i])), 0)
                 /\ Near(AlongArm(outer[i], Radians(angles[i])),
                         spec.OUTER_HOLE_PCD \div 2)
            /\ \A i \in 1 .. n :
                 (angles[(i % n) + 1] - angles[i]) % deg(360)
                     = deg(360) \div spec.ARM_COUNT

\* C15 witness: on the 1000 mm pitch circle the second outer hole is on the
\* 90 degree arm, at (0, 500).
C15_Witness ==
    /\ Returned("calculate_hole_coordinates")
    /\ spec.OUTER_HOLE_PCD = mm(1000)
    /\ Len(call.ret.value.outer) = 4
    /\ call.ret.value.outer[2] = << 0, mm(500) >>

\* C16: for every canonical arm angle the two outer corners returned by
\* calculate_arm_vertices lie on the concave arc's circle: their distance
\* from the arc center of calculate_concave_arc_geometry is
\* ARM_END_ARC_RADIUS to within 1 mm (the looser of the two tolerances), for
\* every valid specification.
C16_OuterCornersOnArc ==
    (Returned("calculate_arm_vertices") /\ call.arg[1] \in CanonicalArmAngles
        /\ ~ InvalidSpecification(spec)) =>
        LET outline == call.ret.value.outline
            n == Len(outline)
            arc_center ==
                calculate_concave_arc_geometry(spec, Radians(call.arg[1]),
                    Half(spec.ARM_WIDTH_OUTER))[1]
        IN  /\ Abs(Dist(outline[2], arc_center) - spec.ARM_END_ARC_RADIUS)
                 <= mm(1)
            /\ Abs(Dist(outline[n - 2], arc_center) - spec.ARM_END_ARC_RADIUS)
                 <= mm(1)

\* The number of fillet arcs in the fillet data of the first k arms.
RECURSIVE FilletArcCount(_, _)
FilletArcCount(fillets, k) ==
    IF k = 0 THEN 0
    ELSE FilletArcCount(fillets, k - 1) + Len(fillets[k].arcs)

\* C17: calculate_arm_vertices returns 4 fillet centers and 4 fillet arcs of
\* radius CORNER_FILLET_RADIUS, one per corner in the order inner-left,
\* inner-right, outer-left, outer-right (each center one fillet radius from
\* its corner, each arc point one fillet radius from its center); the
\* ARM_COUNT arms drawn by draw_corner_fillets carry CORNER_FILLET_COUNT = 16
\* fillets together, and for a valid specification no two arms have a
\* fillet center in common.
C17_FourFilletsPerArm ==
    /\ Returned("calculate_arm_vertices") =>
         LET outline == call.ret.value.outline
             n       == Len(outline)
             fd      == call.ret.value.fillet_data
             corners == << outline[1], outline[n - 1], outline[2],
                           outline[n - 2] >>
         IN  /\ Len(fd.centers) = 4
             /\ Len(fd.arcs) = 4
             /\ fd.radius = spec.CORNER_FILLET_RADIUS
             /\ \A k \in 1 .. Len(fd.centers) :
                  /\ k <= 4 => Near(Dist(fd.centers[k], corners[k]), fd.radius)
                  /\ \A i \in 1 .. Len(fd.arcs[k]) :
                       Near(Dist(fd.arcs[k][i], fd.centers[k]), fd.radius)
    /\ Returned("draw_corner_fillets") =>
         LET fillets == call.ret.value
         IN  /\ Len(fillets) = spec.ARM_COUNT
             /\ FilletArcCount(fillets, Len(fillets)) = spec.CORNER_FILLET_COUNT
             /\ ~ InvalidSpecification(spec) =>
                  \A a, b \in 1 .. Len(fillets) :
                    \A i \in 1 .. Len(fillets[a].centers) :
                      \A j \in 1 .. Len(fillets[b].centers) :
                        a # b => fillets[a].centers[i] # fillets[b].centers[j]

\* C17 witness: the shipped drawing's fillets have been drawn, 16 arcs of
\* 5 mm radius on 4 arms.
C17_Witness ==
    /\ Returned("draw_corner_fillets")
    /\ spec = LoadSpecification(Shipped)
    /\ Len(call.ret.value) = 4
    /\ FilletArcCount(call.ret.value, 4) = 16
    /\ call.ret.value[3].radius = mm(5)

\* C18: whatever constants have been changed before it, a call of
\* calculate_hole_coordinates returns exactly INNER_HOLE_COUNT inner holes,
\* 360/INNER_HOLE_COUNT degrees apart, and a call of
\* calculate_overall_dimensions returns values computed from the constants
\* as they are at the call.
C18_NothingCached ==
    /\ call.fn = "calculate_hole_coordinates" =>
         LET inner  == call.ret.value.inner
             n      == spec.INNER_HOLE_COUNT
             ang(i) == Atan2(inner[i][2], inner[i][1])
         IN  /\ Len(inner) = n
             /\ \A i \in 1 .. Len(inner) - 1 :
                  Abs(WrapPi(ang(i + 1) - ang(i) - Radians(deg(360) \div n)))
                      <= AngTol
    /\ call.fn = "calculate_overall_dimensions" =>
         /\ 2 * call.ret.value.outer_ring_center_radius = spec.OUTER_HOLE_PCD
         /\ call.ret.value.overall_diameter
              = spec.OUTER_HOLE_PCD + spec.OUTER_RING_DIAMETER

\* C19: every point q returned by line_circle_intersection lies on the line
\* (q - point is parallel to direction) and on the circle (|q - circle_center|
\* = circle_radius), to within the rounding of a coordinate; the line from
\* (-10, 0) with direction (1, 0) meets the circle of radius 5 about (0, 0)
\* in exactly (-5, 0) and (5, 0), in that order.
C19_PointsOnLineAndCircle ==
    call.fn = "line_circle_intersection" =>
        LET point         == call.arg[1]
            direction     == call.arg[2]
            circle_center == call.arg[3]
            circle_radius == call.arg[4]
            pts           == call.ret.value
        IN  /\ \A i \in 1 .. Len(pts) :
                 LET q == Sub(pts[i], point)
                     v == Sub(pts[i], circle_center)
                 IN  /\ Abs(q[1] * direction[2] - q[2] * direction[1])
                          <= Abs(direction[1]) + Abs(direction[2])
                     /\ Abs(Dot(v, v) - circle_radius * circle_radius)
                          <= 2 * circle_radius * Tol
            /\ call.arg = << << -mm(10), 0 >>, << 1, 0 >>, << 0, 0 >>, mm(5) >>
                 => pts = << << -mm(5), 0 >>, << mm(5), 0 >> >>

\* C19 witness: the oblique line from (-10, 0) with direction (2, 1) cuts the
\* circle of radius 5 in (-4, 3) and then (0, 5).
C19_Witness ==
    /\ Returned("line_circle_intersection")
    /\ call.arg = << << -mm(10), 0 >>, << 2, 1 >>, << 0, 0 >>, mm(5) >>
    /\ call.ret.value = << << -mm(4), mm(3) >>, << 0, mm(5) >> >>

\* C20: with a valid specification, for each arm angle in {0, 90, 180, 270}
\* calculate_arm_vertices returns (it does not raise) an outline of at least
\* 5 points, a concave arc of at least 10 points and at least 4 fillet
\* centers, and the distances of the concave-arc points from the arc center
\* differ by at most 5 mm.
C20_ArmCalculationSucceeds ==
    (call.fn = "calculate_arm_vertices" /\ call.arg[1] \in CanonicalArmAngles
        /\ ~ InvalidSpecification(spec)) =>
        /\ call.ret.raised = ""
        /\ Len(call.ret.value.outline) >= 5
        /\ Len(call.ret.value.concave_arc) >= 10
        /\ Len(call.ret.value.fillet_data.centers) >= 4
        /\ LET concave_arc == call.ret.value.concave_arc
               arc_center ==
                   calculate_concave_arc_geometry(spec, Radians(call.arg[1]),
                       Half(spec.ARM_WIDTH_OUTER))[1]
           IN  \A i, j \in 1 .. Len(concave_arc) :
                 Dist(concave_arc[i], arc_center)
                     - Dist(concave_arc[j], arc_center) <= mm(5)

\* C20 witness: the shipped arm at 270 degrees: 35 outline points, 30 arc
\* points, 4 fillet centers.
C20_Witness ==
    /\ Returned("calculate_arm_vertices")
    /\ call.arg = << deg(270) >>
    /\ spec = LoadSpecification(Shipped)
    /\ Len(call.ret.value.outline) = 35
    /\ Len(call.ret.value.concave_arc) = 30
    /\ Len(call.ret.value.fillet_data.centers) = 4

\* The largest distance between two consecutive points of an outline.
RECURSIVE MaxGap(_, _)
MaxGap(outline, i) ==
    IF i >= Len(outline) THEN 0
    ELSE LET gap == Dist(outline[i + 1], outline[i])
             rest == MaxGap(outline, i + 1)
         IN  IF gap > rest THEN gap ELSE rest

\* C21: for every canonical arm angle and valid specification, no two
\* consecutive points of the outline returned by calculate_arm_vertices are
\* more than 100 mm apart (the gold-standard continuity threshold; the
\* analysis script's 50 mm is stricter still).
C21_OutlineGapsBounded ==
    (Returned("calculate_arm_vertices") /\ call.arg[1] \in CanonicalArmAngles
        /\ ~ InvalidSpecification(spec)) =>
        MaxGap(call.ret.value.outline, 1) <= mm(100)

\* C22: the inner corners returned by calculate_arm_vertices are the point
\* of the centerline at the inner radius moved half of ARM_WIDTH_INNER along
\* the perpendicular, to the left and to the right: for the 0-degree arm and
\* the shipped constants (250, 25) and (250, -25), so that the chord between
\* them is ARM_WIDTH_INNER.
C22_InnerCornersOffsetFromCenterline ==
    (Returned("calculate_arm_vertices") /\ ~ InvalidSpecification(spec)) =>
        LET outline == call.ret.value.outline
            n == Len(outline)
            z == Radians(call.arg[1])
            inner_left == outline[1]
            inner_right == outline[n - 1]
        IN  /\ Near(AlongArm(inner_left, z), spec.CENTRAL_OPENING_RADIUS)
            /\ Near(AcrossArm(inner_left, z), Half(spec.ARM_WIDTH_INNER))
            /\ Near(AlongArm(inner_right, z), spec.CENTRAL_OPENING_RADIUS)
            /\ Near(AcrossArm(inner_right, z), - Half(spec.ARM_WIDTH_INNER))
            /\ Near(Dist(inner_left, inner_right), spec.ARM_WIDTH_INNER)

\* The center lies at distance radius from the corner, in the direction that
\* makes the angle 45 degrees (sa, sc = 1, 1), 135 (-1, 1), 225 (-1, -1) or
\* 315 (1, -1) with the direction of the arm at angle z.
FilletCenterAt(center, corner, radius, z, sa, sc) ==
    LET d == Sub(center, corner)
        leg == MulT(radius, 707107)
    IN  /\ Near(Dist(center, corner), radius)
        /\ Near(AlongArm(d, z), sa * leg)
        /\ Near(AcrossArm(d, z), sc * leg)

\* The arc has num_points points, all at distance radius from the center,
\* running from the direction of +X to the direction of +Y: a quarter circle.
QuarterCircle(arc, center, radius, num_points) ==
    /\ Len(arc) = num_points
    /\ \A i \in 1 .. Len(arc) :
          /\ Near(Dist(arc[i], center), radius)
          /\ arc[i][1] >= center[1] /\ arc[i][2] >= center[2]
    /\ \A i \in 1 .. Len(arc) - 1 :
          arc[i + 1][1] < arc[i][1] /\ arc[i + 1][2] > arc[i][2]
    /\ Near(arc[1][1], center[1] + radius) /\ Near(arc[1][2], center[2])
    /\ Near(arc[Len(arc)][1], center[1])
    /\ Near(arc[Len(arc)][2], center[2] + radius)

\* C23: each fillet center of calculate_arm_vertices lies CORNER_FILLET_RADIUS
\* from its corner, in the direction arm angle + 180 degrees for the inner
\* corners and arm angle for the outer ones, turned +45 degrees for a left
\* corner and -45 degrees for a right one; each fillet arc has 10 points, all
\* CORNER_FILLET_RADIUS from the center, spanning a quarter circle.
C23_FilletCentersAndArcs ==
    Returned("calculate_arm_vertices") =>
        LET outline == call.ret.value.outline
            n == Len(outline)
            fillets == call.ret.value.fillet_data
            r == spec.CORNER_FILLET_RADIUS
            z == Radians(call.arg[1])
        IN  /\ Len(fillets.centers) = 4
            /\ Len(fillets.arcs) = 4
            /\ FilletCenterAt(fillets.centers[1], outline[1], r, z, -1, -1)
            /\ FilletCenterAt(fillets.centers[2], outline[n - 1], r, z, -1, 1)
            /\ FilletCenterAt(fillets.centers[3], outline[2], r, z, 1, 1)
            /\ FilletCenterAt(fillets.centers[4], outline[n - 2], r, z, 1, -1)
            /\ \A k \in 1 .. 4 :
                  QuarterCircle(fillets.arcs[k], fillets.centers[k], r,
                                FilletArcNumPoints)

\* The 0-degree arm of the shipped constants: the inner-left fillet center is
\* 3.54 mm inward of and below the corner (248.76, 24.88), and its arc runs
\* from 5 mm right of the center to 5 mm above it.
C23_Witness ==
    /\ Returned("calculate_arm_vertices")
    /\ spec = LoadSpecification(Shipped)
    /\ call.arg[1] = deg(0)
    /\ call.ret.value.fillet_data.centers[1] = << 24522, 2134 >>
    /\ call.ret.value.fillet_data.arcs[1][1] = << 25022, 2134 >>
    /\ call.ret.value.fillet_data.arcs[1][FilletArcNumPoints]
         = << 24522, 2634 >>

C25_ArmOverlapAtArmOuterRadius ==
    (Returned("validate_geometry") /\ ~ InvalidSpecification(spec)) =>
        LET extent == Degrees(2 * Atan2(Half(spec.ARM_WIDTH_OUTER),
                                        spec.ARM_OUTER_RADIUS))
            warned == \E i \in 1 .. Len(call.ret.value.warnings) :
                         call.ret.value.warnings[i] = "Arms may overlap"
        IN  /\ warned <=> extent > spec.ARM_ANGULAR_SPACING
            /\ call.ret.value.errors = << >>

\* C26: validate_geometry warns that the inner holes may overlap exactly when
\* INNER_HOLE_PCD * pi / INNER_HOLE_COUNT < 2 * INNER_HOLE_DIAMETER (here
\* multiplied through by the count); with the shipped constants (PCD 90,
\* 8 holes of diameter 8) there is no such warning.
C26_InnerHoleOverlapWarning ==
    Returned("validate_geometry") =>
        LET warned == \E i \in 1 .. Len(call.ret.value.warnings) :
                         call.ret.value.warnings[i] = "Inner holes may overlap"
        IN  /\ warned <=>
                  MulT(spec.INNER_HOLE_PCD, PiRad)
                    < 2 * spec.INNER_HOLE_DIAMETER * spec.INNER_HOLE_COUNT
            /\ spec = LoadSpecification(Shipped) => ~ warned

\* Eight holes of 20 mm on the 90 mm circle are 35.3 mm apart along the arc,
\* less than 40 mm: the warning is given (and no other).
C26_Witness ==
    /\ Returned("validate_geometry")
    /\ spec.INNER_HOLE_COUNT = 8
    /\ spec.INNER_HOLE_DIAMETER = mm(20)
    /\ spec.INNER_HOLE_PCD = mm(90)
    /\ call.ret.value.warnings = << "Inner holes may overlap" >>

\* The position of the call e in the sequence of calls made (0: not made).
Position(events, e) ==
    IF \E i \in 1 .. Len(events) : events[i] = e
    THEN CHOOSE i \in 1 .. Len(events) : events[i] = e
    ELSE 0

\* The calls that create the figure, draw a component or annotate it.
FigureCalls ==
    { "setup_figure_and_axes", "draw_central_opening", "draw_all_arms",
      "draw_all_holes", "draw_outer_ring", "draw_all_pcds",
      "draw_centerlines", "draw_corner_fillets", "add_all_annotations" }

C28_ArcCenterAndExtent ==
    Returned("calculate_concave_arc_geometry") =>
        LET z == call.arg[1]
            half_width_outer == call.arg[2]
            center == call.ret.value[1]
            start_angle == call.ret.value[2]
            end_angle == call.ret.value[3]
            arc_radius == spec.ARM_END_ARC_RADIUS
            h == end_angle - z
            cs == CosSin(h)
        IN  /\ Near(AlongArm(center, z),
                    Half(spec.OUTER_HOLE_PCD) + arc_radius - mm(100))
            /\ Near(AcrossArm(center, z), 0)
            /\ Abs((z - start_angle) - h) <= 1
            /\ h >= 0 /\ h <= PiRad
            /\ Near(MulT(arc_radius, cs[2]), MulT(half_width_outer, cs[1]))
            /\ arc_radius > 0 => cs[1] > 0
            /\ (spec = LoadSpecification(Shipped) /\ z = 0)
                  => center[1] > mm(500) /\ center[2] = 0

\* The shipped 0-degree arm: the center is at (942.5, 0), the arc runs from
\* -5.36 to +5.36 degrees.
C28_Witness ==
    /\ Returned("calculate_concave_arc_geometry")
    /\ spec = LoadSpecification(Shipped)
    /\ call.arg = << 0, mm(50) >>
    /\ call.ret.value[1] = << halfmm(1885), 0 >>
    /\ call.ret.value[2] = - call.ret.value[3]
    /\ Abs(Degrees(call.ret.value[3]) - 5364) <= 1

\* C29: in every result of validate_geometry, geometry_valid is true exactly
\* when the list of errors is empty; warnings have no part in it.
C29_ValidIffNoErrors ==
    Returned("validate_geometry") =>
        (call.ret.value.geometry_valid <=> Len(call.ret.value.errors) = 0)

\* A result with a warning, no error, and geometry_valid true.
C29_Witness ==
    /\ Returned("validate_geometry")
    /\ Len(call.ret.value.warnings) = 1
    /\ call.ret.value.errors = << >>
    /\ call.ret.value.geometry_valid

\* C30: calculate_hole_coordinates returns as many outer hole centers as
\* OUTER_HOLE_COUNT says, whatever its value, none when it is 0.
C30_OuterHoleCountMatches ==
    Returned("calculate_hole_coordinates") =>
        Len(call.ret.value.outer) = spec.OUTER_HOLE_COUNT

=============================================================================
